---- MODULE Spec2Model ----
(***************************************************************************)
(* Model of the limb rigging tool (src/src/limbRiggingTool.py).            *)
(*                                                                         *)
(* LimbRiggerWidget.RigTheLimb builds an FK/IK rig for the first three     *)
(* selected joints by a fixed sequence of calls into the host scene.  The  *)
(* model keeps the scene (nodes, parent links, positions, constraints,     *)
(* attributes, expressions), the position of the running invocation (pc,   *)
(* named after the source line about to run) and its local variables.      *)
(* Every host call is one step, so that an invocation can stop between any *)
(* two calls when the host raises.                                         *)
(*                                                                         *)
(* Host behaviour the source relies on, as the host documents it:          *)
(*  - a node created under a name that is already in use gets the name     *)
(*    with the next free number appended (name, name1, name2, ...); the    *)
(*    source discards the names the creating calls return;                 *)
(*  - group puts the new transform where the grouped nodes' lowest common  *)
(*    parent is and moves the nodes under it;                              *)
(*  - orientConstraint on an object that already has an orient constraint  *)
(*    adds the target to that constraint, with the next driver index and   *)
(*    weight 1; the weight attribute is named <target>W<index>;            *)
(*  - addAttr of an existing attribute, an expression on an attribute      *)
(*    that an expression already drives, a reference to a node that does   *)
(*    not exist and a parent call that would close a cycle raise;          *)
(*  - any call may raise for a reason of the host's own (AdapterFails).    *)
(*                                                                         *)
(* Scalars in [0,1] (weights, visibility, blend) are kept as integers      *)
(* 0..One; positions are kept in half units (twice the real coordinate),   *)
(* so that the halving of the limb vector is exact.                        *)
(***************************************************************************)
EXTENDS Integers, Sequences, FiniteSets, TLC

\* ------------------------------------------------------------------ bounds
\* Number of RigTheLimb invocations in one behaviour.
MaxBuilds == 2
\* Number of host calls that raise for a reason of the host's own.
MaxFailures == 1
\* The blend attribute takes the values k / BlendSteps, k \in 0..BlendSteps.
BlendSteps == 2

\* self.controllerSize as set by __init__.
controllerSize == 15

\* The scalar 1.0 in the model's fixed point.
One == BlendSteps

World == "|"

\* ----------------------------------------------------------------- vectors
\* MVector, in half units.
Origin == <<0, 0, 0>>
VAdd(u, v) == <<u[1] + v[1], u[2] + v[2], u[3] + v[3]>>
VSub(u, v) == <<u[1] - v[1], u[2] - v[2], u[3] - v[3]>>
VMul(u, k) == <<u[1] * k, u[2] * k, u[3] * k>>
\* MVector / 2
VHalf(u) == <<u[1] \div 2, u[2] \div 2, u[3] \div 2>>
Norm2(u) == u[1] * u[1] + u[2] * u[2] + u[3] * u[3]
\* Largest r with r * r <= n.
ISqrt(n) == CHOOSE r \in 0..n : r * r <= n /\ (r + 1) * (r + 1) > n
\* MVector.length()
VLength(u) == ISqrt(Norm2(u))
\* MVector.normalize(): a zero vector is left as it is.
VNormalize(u) ==
    IF VLength(u) = 0 THEN u
    ELSE <<u[1] \div VLength(u), u[2] \div VLength(u), u[3] \div VLength(u)>>

\* ------------------------------------------------------------------- names
\* The names the source composes from the joint names.
FkCtrlName(jnt) == "ac_fk_" \o jnt
FkCtrlGrpName(jnt) == FkCtrlName(jnt) \o "_grp"
IkEndCtrlName(endJnt) == "ac_ik_" \o endJnt
IkEndCtrlGrpName(endJnt) == IkEndCtrlName(endJnt) \o "_grp"
IkHandleName(endJnt) == "ikHandle_" \o endJnt
MidIkCtrlName(midJnt) == "ac_ik_" \o midJnt
MidIkCtrlGrpName(midJnt) == MidIkCtrlName(midJnt) \o "_grp"
IkfkBlendCtrlName(rootJnt) == "ac_ikfk_blend_" \o rootJnt
IkfkBlendCtrlGrpName(rootJnt) == IkfkBlendCtrlName(rootJnt) \o "_grp"
ikfkBlendAttrName == "ikfk_blend"
TopGrpName(rootJnt) == rootJnt \o "_rig_grp"

\* A plug: node.attribute, as the expression strings spell it.
Plug(node, at) == node \o "." \o at
\* The weight attribute of the driver with index idx (0-based) of a constraint.
WeightAttr(target, idx) == target \o "W" \o ToString(idx)

\* ------------------------------------------------------------------- scene
\* The outcome of a host call: the scene after it, or the error it raised
\* (the scene is then the one before the call).
Ok(s) == [ok |-> TRUE, s |-> s, err |-> ""]
Err(s, e) == [ok |-> FALSE, s |-> s, err |-> e]

Exists(s, n) == n \in s.nodes

\* The chain of parents of n, nearest first.
RECURSIVE Ancestors(_, _)
Ancestors(s, n) ==
    IF s.parent[n] = World THEN <<>>
    ELSE <<s.parent[n]>> \o Ancestors(s, s.parent[n])

AncestorSet(s, n) == {Ancestors(s, n)[i] : i \in 1..Len(Ancestors(s, n))}

\* d is n or lies below n.
IsUnder(s, d, n) == d = n \/ n \in AncestorSet(s, d)

Children(s, n) == {c \in s.nodes : s.parent[c] = n}

\* The name a new node gets: the requested one, or with the first free
\* number appended when it is taken.
UniqueName(s, name) ==
    IF name \notin s.nodes THEN name
    ELSE LET k == CHOOSE i \in 1..(Cardinality(s.nodes) + 1) :
                      /\ (name \o ToString(i)) \notin s.nodes
                      /\ \A j \in 1..(i - 1) : (name \o ToString(j)) \in s.nodes
         IN  name \o ToString(k)

\* The name of a node created without a name of the caller's: the kind's base
\* name with the first free number.
AutoName(s, base) ==
    base \o ToString(CHOOSE i \in 1..(Cardinality(s.nodes) + 1) :
                        /\ (base \o ToString(i)) \notin s.nodes
                        /\ \A j \in 1..(i - 1) : (base \o ToString(j)) \in s.nodes)

\* A new DAG node, visible, under par at position p.
AddNode(s, name, k, par, p, sz) ==
    [s EXCEPT !.nodes = @ \cup {name},
              !.parent = @ @@ (name :> par),
              !.kind = @ @@ (name :> k),
              !.pos = @ @@ (name :> p),
              !.size = @ @@ (name :> sz),
              !.attr = @ @@ (Plug(name, "v") :> One)]

\* The value an expression gives its target.
ExprValue(e, attr) ==
    IF e.op = "oneMinus" THEN One - attr[e.source] ELSE attr[e.source]

\* The host re-evaluates every expression: each target takes the value of
\* its formula.
Evaluate(s) ==
    [s EXCEPT !.attr =
        [p \in DOMAIN s.attr |->
            IF \E e \in s.exprs : e.target = p
            THEN ExprValue(CHOOSE e \in s.exprs : e.target = p, s.attr)
            ELSE s.attr[p]]]

\* ---------------------------------------------------------- host commands
\* mc.circle(n=name, r=radius, nr=(1,0,0)) and mel "curve -d 1 -n name ...":
\* a new curve transform at the world origin.
CreateCurve(s, name, radius) ==
    Ok(AddNode(s, UniqueName(s, name), "curve", World, Origin, radius))

\* mc.spaceLocator(n=name)
SpaceLocator(s, name) ==
    Ok(AddNode(s, UniqueName(s, name), "locator", World, Origin, 0))

\* The lowest node that is an ancestor of every node of objs, or the world.
CommonParent(s, objs) ==
    LET common == {a \in s.nodes : \A o \in objs : a \in AncestorSet(s, o)}
    IN  IF common = {} THEN World
        ELSE CHOOSE a \in common :
                 \A b \in common : Len(Ancestors(s, a)) >= Len(Ancestors(s, b))

\* mc.group(objs, n=name): a new transform under the lowest common parent of
\* objs, and objs moved under it.
Group(s, objs, name) ==
    IF \E o \in objs : ~Exists(s, o) THEN Err(s, "NoObject")
    ELSE LET g == UniqueName(s, name)
             par == CommonParent(s, objs)
             at == IF par = World THEN Origin ELSE s.pos[par]
             s1 == AddNode(s, g, "transform", par, at, 0)
         IN  Ok([s1 EXCEPT !.parent =
                    [n \in DOMAIN s1.parent |->
                        IF n \in objs THEN g ELSE s1.parent[n]]])

\* mc.move(x, y, z, node): node is put at p; what hangs under it moves along.
Move(s, node, p) ==
    IF ~Exists(s, node) THEN Err(s, "NoObject")
    ELSE LET delta == VSub(p, s.pos[node])
         IN  Ok([s EXCEPT !.pos =
                    [n \in DOMAIN s.pos |->
                        IF IsUnder(s, n, node) THEN VAdd(s.pos[n], delta)
                        ELSE s.pos[n]]])

\* mc.matchTransform(node, target)
MatchTransform(s, node, target) ==
    IF ~Exists(s, node) \/ ~Exists(s, target) THEN Err(s, "NoObject")
    ELSE Move(s, node, s.pos[target])

\* mc.parent(child, newParent): the world position is kept.  A child that
\* is already under newParent is skipped.
Parent(s, child, newParent) ==
    IF ~Exists(s, child) \/ ~Exists(s, newParent) THEN Err(s, "NoObject")
    ELSE IF IsUnder(s, newParent, child) THEN Err(s, "Cycle")
    ELSE Ok([s EXCEPT !.parent[child] = newParent])

\* The constraint nodes of the given kind that drive obj.
ConstraintsOn(s, obj, k) ==
    {c \in DOMAIN s.cons : s.cons[c].driven = obj /\ s.kind[c] = k}

\* A constraint of kind k of obj by target: obj's constraint of that kind
\* gets target as its next driver, with weight 1; a first constraint is a new
\* node under obj.  A target that already drives is left as it is.
Constrain(s, target, obj, k) ==
    IF ~Exists(s, target) \/ ~Exists(s, obj) THEN Err(s, "NoObject")
    ELSE IF ConstraintsOn(s, obj, k) = {}
    THEN LET c == AutoName(s, obj \o "_" \o k)
             s1 == AddNode(s, c, k, obj, s.pos[obj], 0)
         IN  Ok([s1 EXCEPT
                   !.cons = @ @@ (c :> [driven |-> obj, targets |-> <<target>>]),
                   !.attr = @ @@ (Plug(c, WeightAttr(target, 0)) :> One)])
    ELSE LET c == CHOOSE x \in ConstraintsOn(s, obj, k) : TRUE
             ts == s.cons[c].targets
         IN  IF \E i \in 1..Len(ts) : ts[i] = target THEN Ok(s)
             ELSE Ok([s EXCEPT
                   !.cons[c].targets = Append(ts, target),
                   !.attr = @ @@ (Plug(c, WeightAttr(target, Len(ts))) :> One)])

\* mc.orientConstraint(target, obj)
OrientConstraint(s, target, obj) == Constrain(s, target, obj, "orientConstraint")

\* mc.poleVectorConstraint(target, handle)
PoleVectorConstraint(s, target, handle) ==
    Constrain(s, target, handle, "poleVectorConstraint")

\* mc.scale(x, x, x, node, r=True)
Scale(s, node, k) ==
    IF ~Exists(s, node) THEN Err(s, "NoObject")
    ELSE Ok([s EXCEPT !.size[node] = @ * k])

\* mc.makeIdentity(node, apply=True): the transform is frozen into the shape.
MakeIdentity(s, node) ==
    IF ~Exists(s, node) THEN Err(s, "NoObject") ELSE Ok(s)

\* mc.ikHandle(n=name, sj=startJoint, ee=endJoint, sol="ikRPsolver"): a handle
\* at the end joint and an effector beside it; the solver sets the handle's
\* pole vector.
IkHandle(s, name, startJoint, endJoint, poleVector) ==
    IF ~Exists(s, startJoint) \/ ~Exists(s, endJoint) THEN Err(s, "NoObject")
    ELSE IF startJoint = endJoint \/ ~IsUnder(s, endJoint, startJoint)
    THEN Err(s, "NoChain")
    ELSE LET h == UniqueName(s, name)
             s1 == AddNode(s, h, "ikHandle", World, s.pos[endJoint], 0)
             s2 == AddNode(s1, AutoName(s1, "effector"), "ikEffector",
                           s.parent[endJoint], s.pos[endJoint], 0)
         IN  Ok([s2 EXCEPT !.attr = @ @@ (Plug(h, "ikBlend") :> One),
                            !.pole = @ @@ (h :> poleVector)])

\* mc.setAttr(node + "." + at, value)
SetAttr(s, node, at, value) ==
    IF Plug(node, at) \notin DOMAIN s.attr THEN Err(s, "NoObject")
    ELSE Ok(Evaluate([s EXCEPT !.attr[Plug(node, at)] = value]))

\* mc.addAttr(node, ln=at, k=True, min=0, max=1): a new attribute, 0.
AddAttr(s, node, at) ==
    IF ~Exists(s, node) THEN Err(s, "NoObject")
    ELSE IF Plug(node, at) \in DOMAIN s.attr THEN Err(s, "NameClash")
    ELSE Ok([s EXCEPT !.attr = @ @@ (Plug(node, at) :> 0)])

\* Mutant of Expression: the formula is evaluated once, as an assignment, and
\* nothing stays bound.
Expression_AssignedOnce(s, target, op, source) ==
    IF target \notin DOMAIN s.attr \/ source \notin DOMAIN s.attr
    THEN Err(s, "NoObject")
    ELSE Ok([s EXCEPT !.attr[target] =
                ExprValue([target |-> target, op |-> op, source |-> source], s.attr)])

\* mc.expression(s="target=source" or "target=1-source"): the expression is
\* bound and evaluated.
Expression(s, target, op, source) ==
    IF target \notin DOMAIN s.attr \/ source \notin DOMAIN s.attr
    THEN Err(s, "NoObject")
    ELSE IF \E e \in s.exprs : e.target = target THEN Err(s, "NameClash")
    ELSE Ok(Evaluate([s EXCEPT !.exprs =
             @ \cup {[target |-> target, op |-> op, source |-> source]}]))

\* ------------------------------------------------------------ the skeleton
\* The joints of the scene, a chain from "a" down to "e".
JointChain == <<"a", "b", "c", "d", "e">>
Joints == {JointChain[i] : i \in 1..Len(JointChain)}

\* What the user may have selected when the button is pressed (mc.ls(sl=True)
\* lists the selected nodes in selection order).
Selections ==
    {<<"a", "b">>, <<"a", "b", "c">>, <<"a", "b", "c", "d">>, <<"c", "d", "e">>}

\* Joint positions (real coordinates) and the pole vector the solver gives a
\* new handle.
Layouts ==
    {[jpos |-> [i \in 1..5 |-> <<5 * (i - 1), 0, 0>>], pole |-> <<0, 0, 1>>],
     [jpos |-> [i \in 1..5 |-> <<1, 2 + 3 * (i - 1), 3 + 4 * (i - 1)>>],
      pole |-> <<-2, 0, 0>>]}

\* The scene that holds only the skeleton.
Skeleton(layout) ==
    [nodes |-> Joints,
     parent |-> [j \in Joints |->
                   IF j = JointChain[1] THEN World
                   ELSE JointChain[(CHOOSE i \in 2..Len(JointChain) :
                                       JointChain[i] = j) - 1]],
     kind |-> [j \in Joints |-> "joint"],
     pos |-> [j \in Joints |->
                VMul(layout.jpos[CHOOSE i \in 1..Len(JointChain) :
                                     JointChain[i] = j], 2)],
     size |-> [j \in Joints |-> 0],
     cons |-> <<>>,
     attr |-> [p \in {Plug(j, "v") : j \in Joints} |-> One],
     exprs |-> {},
     pole |-> <<>>]

VARIABLES
    scene,       \* the host's scene
    solverPole,  \* the pole vector the solver gives a new handle
    pc,          \* "idle", or the source line the invocation is about to run
    loc,         \* the local variables of the invocation
    result,      \* how the last invocation ended: "none", "running", "ok", or the error
    errAt,       \* the line that raised
    pre,         \* the scene when the last invocation began
    ran,         \* the lines the last invocation has run, in order
    rigs,        \* the joints of the invocations that ran to their end
    builds,      \* invocations so far
    failures     \* host failures so far

vars == <<scene, solverPole, pc, loc, result, errAt, pre, ran, rigs, builds, failures>>

NoLocals ==
    [selection |-> <<>>, rootJnt |-> "", midJnt |-> "", endJnt |-> "", call |-> 0,
     rootJntPos |-> Origin, endJntPos |-> Origin, poleVector |-> Origin,
     midIkCtrlPos |-> Origin, ikfkBlendCtrlPos |-> Origin,
     endJntOrientConstraint |-> ""]

InitWith(layouts) ==
    /\ \E layout \in layouts :
          /\ scene = Skeleton(layout)
          /\ solverPole = layout.pole
    /\ pc = "idle"
    /\ loc = NoLocals
    /\ result = "none"
    /\ errAt = ""
    /\ pre = scene
    /\ ran = <<>>
    /\ rigs = {}
    /\ builds = 0
    /\ failures = 0

Init == InitWith(Layouts)

\* --------------------------------------------------------------- the steps
\* Mutant of Raise: the failed invocation takes back what it built.
Raise_RolledBack(e) ==
    /\ pc' = "idle"
    /\ result' = e
    /\ errAt' = pc
    /\ scene' = pre
    /\ UNCHANGED <<solverPole, loc, pre, ran, rigs, builds>>

\* An exception leaves RigTheLimb: nothing catches it, the invocation ends
\* where it is and the scene stays as the calls so far left it.
Raise(e) ==
    /\ pc' = "idle"
    /\ result' = e
    /\ errAt' = pc
    /\ UNCHANGED <<scene, solverPole, loc, pre, ran, rigs, builds>>

\* The call at pc returned r: go on to line next with locals l, or raise.
Advance(next, r, l) ==
    /\ IF r.ok
       THEN /\ pc' = next
            /\ scene' = r.s
            /\ loc' = l
            /\ ran' = Append(ran, pc)
            /\ UNCHANGED <<solverPole, result, errAt, pre, rigs, builds>>
       ELSE Raise(r.err)
    /\ UNCHANGED failures

\* Line 57: the button is pressed; the selection is read.
ClickRig ==
    /\ pc = "idle"
    /\ builds < MaxBuilds
    /\ \E sel \in Selections : loc' = [NoLocals EXCEPT !.selection = sel]
    /\ pc' = "L59"
    /\ pre' = scene
    /\ ran' = <<>>
    /\ result' = "running"
    /\ errAt' = ""
    /\ builds' = builds + 1
    /\ UNCHANGED <<scene, solverPole, rigs, failures>>

\* Lines 59-61: the first three selected names, by index.
L59 ==
    /\ pc = "L59"
    /\ IF Len(loc.selection) < 3
       THEN Raise("IndexError") /\ UNCHANGED failures
       ELSE Advance("L101", Ok(scene),
                    [loc EXCEPT !.rootJnt = loc.selection[1],
                                !.midJnt = loc.selection[2],
                                !.endJnt = loc.selection[3],
                                !.call = 1])

\* The argument of the running CreateFKForJnt call (lines 63-65).
Jnt == <<loc.rootJnt, loc.midJnt, loc.endJnt>>[loc.call]

\* CreateFKForJnt, line 101
L101 ==
    /\ pc = "L101"
    /\ Advance("L102", CreateCurve(scene, FkCtrlName(Jnt), controllerSize), loc)

\* line 102
L102 ==
    /\ pc = "L102"
    /\ Advance("L103", Group(scene, {FkCtrlName(Jnt)}, FkCtrlGrpName(Jnt)), loc)

\* line 103
L103 ==
    /\ pc = "L103"
    /\ Advance("L104", MatchTransform(scene, FkCtrlGrpName(Jnt), Jnt), loc)

\* line 104, and the return to line 64, 65 or 67
L104 ==
    /\ pc = "L104"
    /\ Advance(IF loc.call < 3 THEN "L101" ELSE "L67",
               OrientConstraint(scene, FkCtrlName(Jnt), Jnt),
               [loc EXCEPT !.call = IF loc.call < 3 THEN loc.call + 1 ELSE 0])

\* line 67
L67 ==
    /\ pc = "L67"
    /\ Advance("L68",
               Parent(scene, FkCtrlGrpName(loc.midJnt), FkCtrlName(loc.rootJnt)),
               loc)

\* line 68, and the call of CreateIkControl (line 70)
L68 ==
    /\ pc = "L68"
    /\ Advance("L110",
               Parent(scene, FkCtrlGrpName(loc.endJnt), FkCtrlName(loc.midJnt)),
               loc)

\* CreateIkControl, line 110: the end control's curve
L110 ==
    /\ pc = "L110"
    /\ Advance("L111", CreateCurve(scene, IkEndCtrlName(loc.endJnt), 1), loc)

\* line 111
L111 ==
    /\ pc = "L111"
    /\ Advance("L112", Scale(scene, IkEndCtrlName(loc.endJnt), controllerSize), loc)

\* line 112
L112 ==
    /\ pc = "L112"
    /\ Advance("L114", MakeIdentity(scene, IkEndCtrlName(loc.endJnt)), loc)

\* lines 113-114
L114 ==
    /\ pc = "L114"
    /\ Advance("L115",
               Group(scene, {IkEndCtrlName(loc.endJnt)}, IkEndCtrlGrpName(loc.endJnt)),
               loc)

\* line 115
L115 ==
    /\ pc = "L115"
    /\ Advance("L116",
               MatchTransform(scene, IkEndCtrlGrpName(loc.endJnt), loc.endJnt), loc)

\* Mutant of L116: the IK end control constrains the mid joint.
L116_MidJoint ==
    /\ pc = "L116"
    /\ Advance("L120",
               OrientConstraint(scene, IkEndCtrlName(loc.endJnt), loc.midJnt), loc)

\* line 116
L116 ==
    /\ pc = "L116"
    /\ Advance("L120",
               OrientConstraint(scene, IkEndCtrlName(loc.endJnt), loc.endJnt), loc)

\* lines 119-120
L120 ==
    /\ pc = "L120"
    /\ Advance("L122",
               IkHandle(scene, IkHandleName(loc.endJnt), loc.rootJnt, loc.endJnt,
                        solverPole),
               loc)

\* mc.xform(node, q=True, t=True, ws=True)
Xform(s, node) == IF Exists(s, node) THEN Ok(s) ELSE Err(s, "NoObject")

\* lines 122-123
L122 ==
    /\ pc = "L122"
    /\ Advance("L125", Xform(scene, loc.rootJnt),
               [loc EXCEPT !.rootJntPos = scene.pos[loc.rootJnt]])

\* lines 125-126
L125 ==
    /\ pc = "L125"
    /\ Advance("L128", Xform(scene, loc.endJnt),
               [loc EXCEPT !.endJntPos = scene.pos[loc.endJnt]])

\* Mutant of MidIkCtrlPos: the pole offset is as long as the whole limb.
MidIkCtrlPos_WholeLimb(rootJntPos, endJntPos, poleVectorVals) ==
    LET poleVector == VNormalize(poleVectorVals)
        vectorToEnd == VSub(endJntPos, rootJntPos)
        LimbDirOffset == VHalf(vectorToEnd)
        poleVectorDirOffset == VMul(poleVector, VLength(vectorToEnd))
    IN  VAdd(VAdd(rootJntPos, LimbDirOffset), poleVectorDirOffset)

\* Lines 129-136: where the pole vector control goes.
MidIkCtrlPos(rootJntPos, endJntPos, poleVectorVals) ==
    LET poleVector == VNormalize(poleVectorVals)
        vectorToEnd == VSub(endJntPos, rootJntPos)
        LimbDirOffset == VHalf(vectorToEnd)
        poleVectorDirOffset == VMul(poleVector, VLength(LimbDirOffset))
    IN  VAdd(VAdd(rootJntPos, LimbDirOffset), poleVectorDirOffset)

\* mc.getAttr(handle + ".poleVector")
GetPoleVector(s, handle) ==
    IF handle \in DOMAIN s.pole THEN Ok(s) ELSE Err(s, "NoObject")

\* lines 128-136
L128 ==
    /\ pc = "L128"
    /\ Advance("L139", GetPoleVector(scene, IkHandleName(loc.endJnt)),
               [loc EXCEPT
                  !.poleVector = VNormalize(scene.pole[IkHandleName(loc.endJnt)]),
                  !.midIkCtrlPos =
                      MidIkCtrlPos(loc.rootJntPos, loc.endJntPos,
                                   scene.pole[IkHandleName(loc.endJnt)])])

\* lines 138-139
L139 ==
    /\ pc = "L139"
    /\ Advance("L142", SpaceLocator(scene, MidIkCtrlName(loc.midJnt)), loc)

\* lines 141-142
L142 ==
    /\ pc = "L142"
    /\ Advance("L143",
               Group(scene, {MidIkCtrlName(loc.midJnt)}, MidIkCtrlGrpName(loc.midJnt)),
               loc)

\* line 143
L143 ==
    /\ pc = "L143"
    /\ Advance("L146", Move(scene, MidIkCtrlGrpName(loc.midJnt), loc.midIkCtrlPos), loc)

\* line 146
L146 ==
    /\ pc = "L146"
    /\ Advance("L147",
               Parent(scene, IkHandleName(loc.endJnt), IkEndCtrlName(loc.endJnt)), loc)

\* line 147
L147 ==
    /\ pc = "L147"
    /\ Advance("L148",
               PoleVectorConstraint(scene, MidIkCtrlName(loc.midJnt),
                                    IkHandleName(loc.endJnt)),
               loc)

\* line 148, and the return to line 70
L148 ==
    /\ pc = "L148"
    /\ Advance("L73", SetAttr(scene, IkHandleName(loc.endJnt), "v", 0), loc)

\* RigTheLimb, lines 72-73: the blend control's curve
L73 ==
    /\ pc = "L73"
    /\ Advance("L75", CreateCurve(scene, IkfkBlendCtrlName(loc.rootJnt), 1), loc)

\* lines 74-75
L75 ==
    /\ pc = "L75"
    /\ Advance("L77",
               Group(scene, {IkfkBlendCtrlName(loc.rootJnt)},
                     IkfkBlendCtrlGrpName(loc.rootJnt)),
               loc)

\* Line 79: the root position, moved along x by its own x.
IkfkBlendCtrlPos(rootJntPos) == VAdd(rootJntPos, <<rootJntPos[1], 0, 0>>)

\* lines 77-79
L77 ==
    /\ pc = "L77"
    /\ Advance("L80", Xform(scene, loc.rootJnt),
               [loc EXCEPT !.rootJntPos = scene.pos[loc.rootJnt],
                           !.ikfkBlendCtrlPos =
                               IkfkBlendCtrlPos(scene.pos[loc.rootJnt])])

\* line 80
L80 ==
    /\ pc = "L80"
    /\ Advance("L83",
               Move(scene, IkfkBlendCtrlGrpName(loc.rootJnt), loc.ikfkBlendCtrlPos),
               loc)

\* lines 82-83
L83 ==
    /\ pc = "L83"
    /\ Advance("L85",
               AddAttr(scene, IkfkBlendCtrlName(loc.rootJnt), ikfkBlendAttrName), loc)

\* The plug every expression of the invocation reads.
BlendPlug(rootJnt) == Plug(IkfkBlendCtrlName(rootJnt), ikfkBlendAttrName)

\* line 85
L85 ==
    /\ pc = "L85"
    /\ Advance("L86",
               Expression(scene, Plug(FkCtrlGrpName(loc.rootJnt), "v"), "oneMinus",
                          BlendPlug(loc.rootJnt)),
               loc)

\* line 86
L86 ==
    /\ pc = "L86"
    /\ Advance("L87",
               Expression(scene, Plug(IkEndCtrlGrpName(loc.endJnt), "v"), "identity",
                          BlendPlug(loc.rootJnt)),
               loc)

\* line 87
L87 ==
    /\ pc = "L87"
    /\ Advance("L88",
               Expression(scene, Plug(MidIkCtrlGrpName(loc.midJnt), "v"), "identity",
                          BlendPlug(loc.rootJnt)),
               loc)

\* line 88
L88 ==
    /\ pc = "L88"
    /\ Advance("L90",
               Expression(scene, Plug(IkHandleName(loc.endJnt), "ikBlend"), "identity",
                          BlendPlug(loc.rootJnt)),
               loc)

\* mc.listConnections(node, s=True, t='orientConstraint')[0]; None when
\* nothing is connected, and None[0] raises.
ListConnections(s, node) ==
    IF ~Exists(s, node) THEN Err(s, "NoObject")
    ELSE IF ConstraintsOn(s, node, "orientConstraint") = {} THEN Err(s, "TypeError")
    ELSE Ok(s)

\* line 90
L90 ==
    /\ pc = "L90"
    /\ Advance("L91", ListConnections(scene, loc.endJnt),
               [loc EXCEPT !.endJntOrientConstraint =
                   CHOOSE c \in ConstraintsOn(scene, loc.endJnt, "orientConstraint") :
                       TRUE])

\* Mutant of L91: the FK weight is bound to the blend itself.
L91_NotInverted ==
    /\ pc = "L91"
    /\ Advance("L92",
               Expression(scene,
                          Plug(loc.endJntOrientConstraint,
                               FkCtrlName(loc.endJnt) \o "W0"),
                          "identity", BlendPlug(loc.rootJnt)),
               loc)

\* line 91
L91 ==
    /\ pc = "L91"
    /\ Advance("L92",
               Expression(scene,
                          Plug(loc.endJntOrientConstraint,
                               FkCtrlName(loc.endJnt) \o "W0"),
                          "oneMinus", BlendPlug(loc.rootJnt)),
               loc)

\* Mutant of L92: the IK weight is bound to 1 - blend.
L92_Inverted ==
    /\ pc = "L92"
    /\ Advance("L96",
               Expression(scene,
                          Plug(loc.endJntOrientConstraint,
                               IkEndCtrlName(loc.endJnt) \o "W1"),
                          "oneMinus", BlendPlug(loc.rootJnt)),
               loc)

\* line 92
L92 ==
    /\ pc = "L92"
    /\ Advance("L96",
               Expression(scene,
                          Plug(loc.endJntOrientConstraint,
                               IkEndCtrlName(loc.endJnt) \o "W1"),
                          "identity", BlendPlug(loc.rootJnt)),
               loc)

\* The nodes line 96 groups.
TopMembers(rootJnt, midJnt, endJnt) ==
    {FkCtrlGrpName(rootJnt), IkEndCtrlGrpName(endJnt), MidIkCtrlGrpName(midJnt),
     IkfkBlendCtrlGrpName(rootJnt)}

\* The call of line 96.
GroupAll(s, rootJnt, midJnt, endJnt) ==
    Group(s, TopMembers(rootJnt, midJnt, endJnt), TopGrpName(rootJnt))

\* lines 94-96, and the return of RigTheLimb
L96 ==
    /\ pc = "L96"
    /\ LET r == GroupAll(scene, loc.rootJnt, loc.midJnt, loc.endJnt)
       IN  IF r.ok
           THEN /\ pc' = "idle"
                /\ scene' = r.s
                /\ ran' = Append(ran, pc)
                /\ result' = "ok"
                /\ rigs' = rigs \cup {[rootJnt |-> loc.rootJnt, midJnt |-> loc.midJnt,
                                       endJnt |-> loc.endJnt]}
                /\ UNCHANGED <<solverPole, loc, errAt, pre, builds>>
           ELSE Raise(r.err)
    /\ UNCHANGED failures

\* The lines that call the host.
HostCalls ==
    {"L101", "L102", "L103", "L104", "L67", "L68", "L110", "L111", "L112", "L114",
     "L115", "L116", "L120", "L122", "L125", "L128", "L139", "L142", "L143", "L146",
     "L147", "L148", "L73", "L75", "L77", "L80", "L83", "L85", "L86", "L87", "L88",
     "L90", "L91", "L92", "L96"}

\* The host call at pc raises for a reason of the host's own (a solver
\* failure, a locked node, ...).
AdapterFails ==
    /\ pc \in HostCalls
    /\ failures < MaxFailures
    /\ failures' = failures + 1
    /\ Raise("SceneGraphError")

\* The animator sets a blend attribute (keyable, min 0, max 1, line 83); the
\* host re-evaluates the expressions that read it.
SetBlend ==
    /\ pc = "idle"
    /\ \E n \in scene.nodes : \E b \in 0..One :
          /\ Plug(n, ikfkBlendAttrName) \in DOMAIN scene.attr
          /\ scene' = SetAttr(scene, n, ikfkBlendAttrName, b).s
    /\ UNCHANGED <<solverPole, pc, loc, result, errAt, pre, ran, rigs, builds, failures>>

\* ------------------------------------------------------------------ claims
\* An invocation has been made and is running or has ended.
Invoked == result # "none"
Completed == pc = "idle" /\ result = "ok"
Failed == pc = "idle" /\ result \notin {"none", "running", "ok"}

\* The part of a scene that setting a blend attribute leaves alone.
Structure(s) == [nodes |-> s.nodes, parent |-> s.parent, kind |-> s.kind,
                 pos |-> s.pos, cons |-> s.cons, exprs |-> s.exprs,
                 plugs |-> DOMAIN s.attr]

\* The weight of driver target in constraint c.
DriverWeight(s, c, target) ==
    LET ts == s.cons[c].targets
        i == CHOOSE k \in 1..Len(ts) : ts[k] = target
    IN  s.attr[Plug(c, WeightAttr(target, i - 1))]

Drives(s, c, target) ==
    \E k \in 1..Len(s.cons[c].targets) : s.cons[c].targets[k] = target

\* The orient constraint of joint j.
OrientOf(s, j) == CHOOSE c \in ConstraintsOn(s, j, "orientConstraint") : TRUE

\* C1: an invocation on a selection whose length is not three fails at the
\* count check (lines 59-61 are the only place that looks at the count) and
\* leaves the scene's nodes, links, constraints and expressions as they were.
C1_WrongCountRejected ==
    (Invoked /\ Len(loc.selection) # 3) =>
        /\ Structure(scene) = Structure(pre)
        /\ pc = "idle" => (result # "ok" /\ errAt = "L59")

\* C2, as claimed: whenever an orient constraint has both the FK control and
\* the IK control of its joint as drivers, the two weights sum to 1.
C2_WeightsAlwaysSumToOne ==
    \A c \in DOMAIN scene.cons :
        LET j == scene.cons[c].driven
        IN  (/\ scene.kind[c] = "orientConstraint"
             /\ Drives(scene, c, FkCtrlName(j))
             /\ Drives(scene, c, IkEndCtrlName(j)))
            => DriverWeight(scene, c, FkCtrlName(j))
                 + DriverWeight(scene, c, IkEndCtrlName(j)) = One

\* C2, amended: once an invocation has run to its end, its end joint's orient
\* constraint has the FK end control and the IK end control as drivers, the
\* FK weight is 1 - blend and the IK weight is blend, whatever value the
\* blend attribute is given; the two sum to 1.
C2_WeightsFollowBlendOnceBuilt ==
    \A r \in rigs :
        LET c == OrientOf(scene, r.endJnt)
            b == scene.attr[BlendPlug(r.rootJnt)]
        IN  /\ Drives(scene, c, FkCtrlName(r.endJnt))
            /\ Drives(scene, c, IkEndCtrlName(r.endJnt))
            /\ DriverWeight(scene, c, FkCtrlName(r.endJnt)) = One - b
            /\ DriverWeight(scene, c, IkEndCtrlName(r.endJnt)) = b
            /\ DriverWeight(scene, c, FkCtrlName(r.endJnt))
                 + DriverWeight(scene, c, IkEndCtrlName(r.endJnt)) = One

\* A finished rig whose blend attribute has been set strictly between 0 and 1.
C2_Witness ==
    \E r \in rigs :
        /\ scene.attr[BlendPlug(r.rootJnt)] > 0
        /\ scene.attr[BlendPlug(r.rootJnt)] < One
        /\ DriverWeight(scene, OrientOf(scene, r.endJnt), IkEndCtrlName(r.endJnt)) > 0

\* C3: for every finished rig and every value of its blend attribute, the
\* root FK group's visibility is 1 - blend, and the IK end group's
\* visibility, the pole group's visibility and the handle's ikBlend are blend.
C3_TargetsFollowBlend ==
    \A r \in rigs :
        LET b == scene.attr[BlendPlug(r.rootJnt)]
        IN  /\ scene.attr[Plug(FkCtrlGrpName(r.rootJnt), "v")] = One - b
            /\ scene.attr[Plug(IkEndCtrlGrpName(r.endJnt), "v")] = b
            /\ scene.attr[Plug(MidIkCtrlGrpName(r.midJnt), "v")] = b
            /\ scene.attr[Plug(IkHandleName(r.endJnt), "ikBlend")] = b

\* A finished rig whose blend attribute the animator has moved off 0, with
\* the pole group's visibility moved along.
C3_Witness ==
    \E r \in rigs :
        /\ scene.attr[BlendPlug(r.rootJnt)] > 0
        /\ scene.attr[Plug(MidIkCtrlGrpName(r.midJnt), "v")] > 0
        /\ scene.attr[Plug(FkCtrlGrpName(r.rootJnt), "v")] < One

\* The weights the FK controls of the rig's joints have in the joints' orient
\* constraints.
FkWeights(s, r) ==
    {DriverWeight(s, OrientOf(s, j), FkCtrlName(j)) : j \in {r.rootJnt, r.midJnt, r.endJnt}}

\* C4: for every finished rig, at blend 0 the handle's ikBlend is 0, the IK
\* end control's weight on the end joint is 0, the IK end group and the pole
\* group are invisible and the root FK group is visible; at blend 1 no FK
\* control of the three joints has a non-zero weight, ikBlend is 1 and the
\* root FK group is invisible.
C4_PureFkAndPureIk ==
    \A r \in rigs :
        LET b == scene.attr[BlendPlug(r.rootJnt)]
        IN  /\ b = 0 =>
                /\ scene.attr[Plug(IkHandleName(r.endJnt), "ikBlend")] = 0
                /\ DriverWeight(scene, OrientOf(scene, r.endJnt),
                                IkEndCtrlName(r.endJnt)) = 0
                /\ scene.attr[Plug(IkEndCtrlGrpName(r.endJnt), "v")] = 0
                /\ scene.attr[Plug(MidIkCtrlGrpName(r.midJnt), "v")] = 0
                /\ scene.attr[Plug(FkCtrlGrpName(r.rootJnt), "v")] = One
            /\ b = One =>
                /\ FkWeights(scene, r) = {0}
                /\ scene.attr[Plug(IkHandleName(r.endJnt), "ikBlend")] = One
                /\ scene.attr[Plug(FkCtrlGrpName(r.rootJnt), "v")] = 0

\* C4, amended: for every finished rig, at blend 0 the handle's ikBlend is 0,
\* on the end joint the IK end control's weight is 0 and the FK end control's
\* weight is 1, the IK end group and the pole group are invisible and the
\* root FK group is visible; at blend 1, on the end joint the FK end
\* control's weight is 0 and the IK end control's weight is 1, ikBlend is 1
\* and the root FK group is invisible.  (Nothing is said of the FK weights of
\* the root and mid joints: no expression drives them.)
C4_EndJointAndHandleSwitch ==
    \A r \in rigs :
        LET b == scene.attr[BlendPlug(r.rootJnt)]
            c == OrientOf(scene, r.endJnt)
        IN  /\ b = 0 =>
                /\ scene.attr[Plug(IkHandleName(r.endJnt), "ikBlend")] = 0
                /\ DriverWeight(scene, c, IkEndCtrlName(r.endJnt)) = 0
                /\ DriverWeight(scene, c, FkCtrlName(r.endJnt)) = One
                /\ scene.attr[Plug(IkEndCtrlGrpName(r.endJnt), "v")] = 0
                /\ scene.attr[Plug(MidIkCtrlGrpName(r.midJnt), "v")] = 0
                /\ scene.attr[Plug(FkCtrlGrpName(r.rootJnt), "v")] = One
            /\ b = One =>
                /\ DriverWeight(scene, c, FkCtrlName(r.endJnt)) = 0
                /\ DriverWeight(scene, c, IkEndCtrlName(r.endJnt)) = One
                /\ scene.attr[Plug(IkHandleName(r.endJnt), "ikBlend")] = One
                /\ scene.attr[Plug(FkCtrlGrpName(r.rootJnt), "v")] = 0

\* A finished rig with its blend attribute set to 1.
C4_Witness ==
    \E r \in rigs :
        /\ scene.attr[BlendPlug(r.rootJnt)] = One
        /\ scene.attr[Plug(FkCtrlGrpName(r.rootJnt), "v")] = 0

\* The lines the invocation has run.
Ran == {ran[i] : i \in 1..Len(ran)}

\* The parent links of the FK chain of joints root, mid, end.
FKLinks(s, rootJnt, midJnt, endJnt) ==
    /\ s.parent[FkCtrlGrpName(midJnt)] = FkCtrlName(rootJnt)
    /\ s.parent[FkCtrlGrpName(endJnt)] = FkCtrlName(midJnt)
    /\ \A j \in {rootJnt, midJnt, endJnt} : s.parent[FkCtrlName(j)] = FkCtrlGrpName(j)

\* C5: from the moment an invocation has parented the FK chain (line 68) to
\* its end and after it, the mid FK group's parent is the root FK control,
\* the end FK group's parent is the mid FK control and every FK control's
\* parent is its own group.
C5_FKChainLinked ==
    (result \in {"running", "ok"} /\ "L68" \in Ran)
        => FKLinks(scene, loc.rootJnt, loc.midJnt, loc.endJnt)

\* Everything below node n.
Descendants(s, n) == {d \in s.nodes : d # n /\ IsUnder(s, d, n)}

\* The transforms line 96 leaves under the top group of joints root, mid, end.
RigTransforms(rootJnt, midJnt, endJnt) ==
    TopMembers(rootJnt, midJnt, endJnt)
      \cup {FkCtrlName(rootJnt), FkCtrlName(midJnt), FkCtrlName(endJnt),
            FkCtrlGrpName(midJnt), FkCtrlGrpName(endJnt),
            IkEndCtrlName(endJnt), IkHandleName(endJnt), MidIkCtrlName(midJnt),
            IkfkBlendCtrlName(rootJnt)}

\* C6: when an invocation has run to its end, the top group named from the
\* root joint is at the world level, its children are exactly the root FK
\* group, the IK end group, the pole group and the blend group, and below
\* them lie only the FK chain (control in group, mid group under root
\* control, end group under mid control), the IK end control with the handle
\* under it, the pole control and the blend control.
C6_FourSiblingsUnderOneTop ==
    Completed =>
        LET top == TopGrpName(loc.rootJnt)
            members == TopMembers(loc.rootJnt, loc.midJnt, loc.endJnt)
        IN  /\ Exists(scene, top)
            /\ scene.parent[top] = World
            /\ Cardinality(members) = 4
            /\ Children(scene, top) = members
            /\ FKLinks(scene, loc.rootJnt, loc.midJnt, loc.endJnt)
            /\ scene.parent[IkEndCtrlName(loc.endJnt)] = IkEndCtrlGrpName(loc.endJnt)
            /\ scene.parent[IkHandleName(loc.endJnt)] = IkEndCtrlName(loc.endJnt)
            /\ scene.parent[MidIkCtrlName(loc.midJnt)] = MidIkCtrlGrpName(loc.midJnt)
            /\ scene.parent[IkfkBlendCtrlName(loc.rootJnt)]
                 = IkfkBlendCtrlGrpName(loc.rootJnt)
            /\ {d \in Descendants(scene, top) :
                    scene.kind[d] \notin {"poleVectorConstraint"}}
                 = RigTransforms(loc.rootJnt, loc.midJnt, loc.endJnt)

\* The joints the running or last invocation works on.
Current == [rootJnt |-> loc.selection[1], midJnt |-> loc.selection[2],
            endJnt |-> loc.selection[3]]

\* The invocation is a repeated one: the same three joints have a finished
\* rig that was in the scene when the invocation began.
Again ==
    /\ Invoked
    /\ Len(loc.selection) >= 3
    /\ Current \in rigs
    /\ Exists(pre, TopGrpName(loc.selection[1]))

\* C8: a repeated invocation leaves every node of the first rig as it was
\* (parent, position, constraints, expressions), adds nodes if it runs to its
\* end, and fails, if it fails, with a name clash or a host failure.
C8_SecondBuildKeepsFirst ==
    Again =>
        /\ \A n \in pre.nodes :
              /\ Exists(scene, n)
              /\ scene.parent[n] = pre.parent[n]
              /\ scene.pos[n] = pre.pos[n]
        /\ \A c \in DOMAIN pre.cons : scene.cons[c] = pre.cons[c]
        /\ pre.exprs \subseteq scene.exprs
        /\ Completed => scene.nodes # pre.nodes
        /\ Failed => result \in {"NameClash", "SceneGraphError"}

\* The limb's midpoint and the place of the pole group of the running or
\* last invocation.
LimbVector == VSub(scene.pos[loc.endJnt], scene.pos[loc.rootJnt])
Midpoint == VAdd(scene.pos[loc.rootJnt], VHalf(LimbVector))
PoleOffset == VSub(scene.pos[MidIkCtrlGrpName(loc.midJnt)], Midpoint)
PolePlaced == result \in {"running", "ok"} /\ "L143" \in Ran
Dot(u, v) == u[1] * v[1] + u[2] * v[2] + u[3] * v[3]
Cross(u, v) == <<u[2] * v[3] - u[3] * v[2], u[3] * v[1] - u[1] * v[3],
                 u[1] * v[2] - u[2] * v[1]>>

\* C7, as claimed: once the pole group is placed (line 143), its distance
\* from the limb's midpoint is half the distance from the root joint to the
\* end joint (compared as squares).
C7_PoleAtHalfLimbLength ==
    PolePlaced => Norm2(PoleOffset) = Norm2(VHalf(LimbVector))

\* C7, amended: once the pole group is placed, its offset from the limb's
\* midpoint points the way the handle's pole vector points and, when the pole
\* vector is not zero, is half the limb's length long; with a zero pole
\* vector the pole group is at the midpoint.
C7_PoleAlongPoleVector ==
    PolePlaced =>
        /\ Cross(PoleOffset, solverPole) = Origin
        /\ Dot(PoleOffset, solverPole) >= 0
        /\ solverPole # Origin => Norm2(PoleOffset) = Norm2(VHalf(LimbVector))
        /\ solverPole = Origin => PoleOffset = Origin

\* A pole group placed off the midpoint of a limb that lies along no axis.
C7_Witness ==
    /\ PolePlaced
    /\ solverPole # Origin
    /\ PoleOffset # Origin
    /\ Cardinality({i \in 1..3 : LimbVector[i] # 0}) >= 2

\* C9: the step in which a host call fails leaves the scene exactly as it
\* was, ends the invocation with the host's error and runs no line; and
\* until the button is pressed again no line runs and no node, link,
\* constraint or expression changes.
C9_FailureKeepsWhatWasBuilt ==
    [][/\ (pc # "idle" /\ pc' = "idle" /\ result' # "ok") =>
            /\ scene' = scene
            /\ ran' = ran
            /\ errAt' = pc
            /\ result' \in {"IndexError", "NoObject", "Cycle", "NoChain", "NameClash",
                            "TypeError", "SceneGraphError"}
       /\ (Failed /\ builds' = builds) =>
            /\ pc' = "idle"
            /\ ran' = ran
            /\ result' = result
            /\ Structure(scene') = Structure(scene)]_vars

\* An invocation that failed after it had changed the scene.
C9_Witness ==
    /\ Failed
    /\ result = "SceneGraphError"
    /\ scene.nodes # pre.nodes
    /\ "L120" \in Ran

\* The lines of a whole invocation, in the order of the source: validation,
\* the three CreateFKForJnt calls, the FK parenting, CreateIkControl, the
\* blend control and its expressions, the top group.
Program ==
    <<"L59">>
    \o <<"L101", "L102", "L103", "L104">> \o <<"L101", "L102", "L103", "L104">>
    \o <<"L101", "L102", "L103", "L104">>
    \o <<"L67", "L68">>
    \o <<"L110", "L111", "L112", "L114", "L115", "L116", "L120", "L122", "L125",
         "L128", "L139", "L142", "L143", "L146", "L147", "L148">>
    \o <<"L73", "L75", "L77", "L80", "L83", "L85", "L86", "L87", "L88", "L90",
         "L91", "L92">>
    \o <<"L96">>

\* C10: the lines an invocation has run are always an initial part of the
\* program order, the line about to run is the next one, and a finished
\* invocation has run them all; no line fails for naming something that does
\* not exist; and when the weight expressions are bound (lines 91, 92) the
\* end joint's orient constraint has the FK end control as driver 0 and the
\* IK end control as driver 1.
C10_StagesInOrder ==
    /\ Len(ran) <= Len(Program)
    /\ ran = SubSeq(Program, 1, Len(ran))
    /\ pc # "idle" => pc = Program[Len(ran) + 1]
    /\ Completed => ran = Program
    /\ result \notin {"NoObject", "TypeError"}
    /\ pc \in {"L91", "L92"} =>
          /\ scene.cons[loc.endJntOrientConstraint].driven = loc.endJnt
          /\ scene.cons[loc.endJntOrientConstraint].targets
               = <<FkCtrlName(loc.endJnt), IkEndCtrlName(loc.endJnt)>>

\* A finished invocation, every line run once, the two drivers in place.
C10_Witness ==
    /\ Completed
    /\ ran = Program
    /\ scene.cons[loc.endJntOrientConstraint].targets
         = <<FkCtrlName(loc.endJnt), IkEndCtrlName(loc.endJnt)>>

Build ==
    \/ L59 \/ L101 \/ L102 \/ L103 \/ L104 \/ L67 \/ L68
    \/ L110 \/ L111 \/ L112 \/ L114 \/ L115 \/ L116 \/ L120 \/ L122 \/ L125 \/ L128
    \/ L139 \/ L142 \/ L143 \/ L146 \/ L147 \/ L148
    \/ L73 \/ L75 \/ L77 \/ L80 \/ L83 \/ L85 \/ L86 \/ L87 \/ L88 \/ L90 \/ L91
    \/ L92 \/ L96

Next == ClickRig \/ Build \/ AdapterFails \/ SetBlend

Spec == Init /\ [][Next]_vars

\* The same steps on one invocation, without host failures, over many limbs:
\* root positions, limb vectors of whole length (along an axis and not) and
\* pole vectors along an axis, or zero.
RootPositions == {<<0, 0, 0>>, <<1, 2, 3>>, <<-4, 0, 7>>}
LimbVectors ==
    {<<0, 0, 0>>, <<10, 0, 0>>, <<0, -4, 0>>, <<0, 0, 6>>, <<3, 4, 0>>,
     <<-6, 0, 8>>, <<2, 3, 6>>, <<1, -2, 2>>}
PoleVectors == {<<0, 0, 0>>, <<1, 0, 0>>, <<0, -3, 0>>, <<0, 0, 2>>, <<-5, 0, 0>>}

PoleLayouts ==
    {[jpos |-> <<root, VAdd(root, <<1, 1, 0>>), VAdd(root, limb),
                 VAdd(VAdd(root, limb), <<1, 0, 1>>),
                 VAdd(VAdd(root, limb), limb)>>,
      pole |-> pv] :
        root \in RootPositions, limb \in LimbVectors, pv \in PoleVectors}

InitPole == InitWith(PoleLayouts)

NextPole == (ClickRig /\ builds = 0) \/ Build

SpecPole == InitPole /\ [][NextPole]_vars

\* ------------------------------------------------- the names of one build
\* Names a joint may have: plain ones, and ones that look like the names the
\* tool makes ("ac_fk_" + joint, "ac_ik_" + joint, control + "_grp").
JointNames == {"x", "y", "z", "x_grp", "ac_fk_x", "ac_ik_y"}

\* Three pairwise-distinct joints, root, mid, end.
NameChains ==
    {c \in JointNames \X JointNames \X JointNames :
        c[1] # c[2] /\ c[1] # c[3] /\ c[2] # c[3]}

\* The scene that holds only the three joints of chain, root first.
SkeletonOf(chain, layout) ==
    LET js == {chain[i] : i \in 1..Len(chain)}
        At(j) == CHOOSE i \in 1..Len(chain) : chain[i] = j
    IN  [nodes |-> js,
         parent |-> [j \in js |-> IF At(j) = 1 THEN World ELSE chain[At(j) - 1]],
         kind |-> [j \in js |-> "joint"],
         pos |-> [j \in js |-> VMul(layout.jpos[At(j)], 2)],
         size |-> [j \in js |-> 0],
         cons |-> <<>>,
         attr |-> [p \in {Plug(j, "v") : j \in js} |-> One],
         exprs |-> {},
         pole |-> <<>>]

\* The three joints of the scene in chain order: what mc.ls(sl=True) lists
\* when the user has picked root, mid, end.
SelectedChain(s) ==
    CHOOSE c \in NameChains :
        /\ {c[1], c[2], c[3]} \subseteq s.nodes
        /\ s.kind[c[1]] = "joint" /\ s.parent[c[1]] = World
        /\ s.kind[c[2]] = "joint" /\ s.parent[c[2]] = c[1]
        /\ s.kind[c[3]] = "joint" /\ s.parent[c[3]] = c[2]

InitNames ==
    /\ \E chain \in NameChains : \E layout \in Layouts :
          /\ scene = SkeletonOf(chain, layout)
          /\ solverPole = layout.pole
    /\ pc = "idle"
    /\ loc = NoLocals
    /\ result = "none"
    /\ errAt = ""
    /\ pre = scene
    /\ ran = <<>>
    /\ rigs = {}
    /\ builds = 0
    /\ failures = 0

\* The button is pressed once, with the three joints selected.
ClickRigNamed ==
    /\ pc = "idle"
    /\ builds = 0
    /\ loc' = [NoLocals EXCEPT !.selection = SelectedChain(scene)]
    /\ pc' = "L59"
    /\ pre' = scene
    /\ ran' = <<>>
    /\ result' = "running"
    /\ errAt' = ""
    /\ builds' = builds + 1
    /\ UNCHANGED <<scene, solverPole, rigs, failures>>

NextNames == ClickRigNamed \/ Build

SpecNames == InitNames /\ [][NextNames]_vars

\* The names one build gives to mc / mel for the nodes it makes, in the
\* order of the lines that make them (lines 99-100 three times, 109, 113,
\* 119, 138, 141, 72, 74, 94).
AssignedNames(rootJnt, midJnt, endJnt) ==
    <<FkCtrlName(rootJnt), FkCtrlGrpName(rootJnt),
      FkCtrlName(midJnt), FkCtrlGrpName(midJnt),
      FkCtrlName(endJnt), FkCtrlGrpName(endJnt),
      IkEndCtrlName(endJnt), IkEndCtrlGrpName(endJnt), IkHandleName(endJnt),
      MidIkCtrlName(midJnt), MidIkCtrlGrpName(midJnt),
      IkfkBlendCtrlName(rootJnt), IkfkBlendCtrlGrpName(rootJnt),
      TopGrpName(rootJnt)>>

\* The names of the running or last invocation, the three joints' last.
NamesInUse ==
    AssignedNames(loc.rootJnt, loc.midJnt, loc.endJnt)
        \o <<loc.rootJnt, loc.midJnt, loc.endJnt>>

\* C11: once an invocation has read its three pairwise-distinct joints
\* (lines 59-61), the fourteen names it gives to the nodes it makes are
\* pairwise distinct and none of them is the name of one of the three joints.
C11_NamesOfOneBuildDistinct ==
    loc.rootJnt # "" =>
        \A i, j \in 1..Len(NamesInUse) : i # j => NamesInUse[i] # NamesInUse[j]

\* --------------------------------------------------- TrimSheetUVBuilder.py
\* The UV tool works on the UVs of a mesh: here scene is [uv |-> the
\* coordinates <<u, v>> of each UV of the mesh, by index], loc holds
\* self.shell (the stored components) and the two values GetShellBound
\* returned to BackToOrigin, pre is the scene before the last move and ran
\* lists the buttons pressed.
MaxUVs == 3
MaxMoves == 2
UVValues == {-1, 0, 2}
UVMaps ==
    UNION {[1..n -> UVValues \X UVValues] : n \in 1..MaxUVs}

\* mc.polyEditUV(uv, q=True): the coordinates of one UV.
QueryUV(s, uv) == s.uv[uv]

\* Lines 127-139: the loop of GetShellBound from the i-th UV on. b holds
\* minU, maxU, minV and maxV; the four tests follow one another within one
\* iteration, and each of the four branches assigns minU.
RECURSIVE ShellBoundLoop(_, _, _, _)
ShellBoundLoop(s, uvs, i, b) ==
    IF i > Len(uvs) THEN b
    ELSE LET uvCoord == QueryUV(s, uvs[i])
             b1 == IF uvCoord[1] < b.minU THEN [b EXCEPT !.minU = uvCoord[1]] ELSE b
             b2 == IF uvCoord[1] > b1.maxU THEN [b1 EXCEPT !.minU = uvCoord[1]] ELSE b1
             b3 == IF uvCoord[2] < b2.minV THEN [b2 EXCEPT !.minU = uvCoord[2]] ELSE b2
             b4 == IF uvCoord[2] > b3.maxV THEN [b3 EXCEPT !.minU = uvCoord[2]] ELSE b3
         IN  ShellBoundLoop(s, uvs, i + 1, b4)

\* Lines 119-140, for a shell that is not empty: <<[minU, minV], [maxU, maxV]>>.
\* The shell's components are UVs already, so the conversion and the
\* flattening of lines 120-121 list them as they are.
GetShellBound(s, shell) ==
    LET uvs == shell
        firstUV == QueryUV(s, uvs[1])
        b == ShellBoundLoop(s, uvs, 1,
                 [minU |-> firstUV[1], maxU |-> firstUV[1],
                  minV |-> firstUV[2], maxV |-> firstUV[2]])
    IN  <<(<<b.minU, b.minV>>), (<<b.maxU, b.maxV>>)>>

\* mc.polyEditUV(shell, u=du, v=dv): every UV of shell moves by (du, dv).
PolyEditUV(s, shell, du, dv) ==
    LET moved == {shell[k] : k \in 1..Len(shell)}
    IN  [s EXCEPT !.uv = [i \in DOMAIN s.uv |->
                            IF i \in moved
                            THEN <<s.uv[i][1] + du, s.uv[i][2] + dv>>
                            ELSE s.uv[i]]]

NoShell == [shell |-> <<>>, minCoord |-> <<>>, maxCoord |-> <<>>]

InitShell ==
    /\ \E m \in UVMaps : scene = [uv |-> m]
    /\ loc = NoShell
    /\ pc = "idle"
    /\ result = "none"
    /\ pre = scene
    /\ ran = <<>>
    /\ solverPole = Origin
    /\ errAt = ""
    /\ rigs = {}
    /\ builds = 0
    /\ failures = 0

\* Line 182: the selected components, flattened, become the shell; the user
\* has selected every UV of the mesh.
SelectShell ==
    /\ pc = "idle"
    /\ loc' = [NoShell EXCEPT !.shell = [i \in DOMAIN scene.uv |-> i]]
    /\ result' = "none"
    /\ UNCHANGED <<scene, solverPole, pc, errAt, pre, ran, rigs, builds, failures>>

\* Lines 142-144. With no shell stored, line 122 indexes an empty list.
BackToOrigin ==
    /\ pc = "idle"
    /\ Len(ran) < MaxMoves
    /\ ran' = Append(ran, "BackToOrigin")
    /\ pre' = scene
    /\ IF loc.shell = <<>>
       THEN /\ result' = "IndexError"
            /\ UNCHANGED <<scene, loc>>
       ELSE LET bound == GetShellBound(scene, loc.shell)
                minCoord == bound[1]
                maxCoord == bound[2]
            IN  /\ loc' = [loc EXCEPT !.minCoord = minCoord, !.maxCoord = maxCoord]
                /\ scene' = PolyEditUV(scene, loc.shell, -minCoord[1], -minCoord[2])
                /\ result' = "ok"
    /\ UNCHANGED <<solverPole, pc, errAt, rigs, builds, failures>>

NextShell == SelectShell \/ BackToOrigin

SpecShell == InitShell /\ [][NextShell]_vars

\* The least and the greatest of a non-empty finite set of integers.
Least(S) == CHOOSE x \in S : \A y \in S : x <= y
Greatest(S) == CHOOSE x \in S : \A y \in S : x >= y
\* The u (k = 1) or v (k = 2) coordinates of the UVs of shell in scene s.
Coords(s, shell, k) == {s.uv[shell[i]][k] : i \in 1..Len(shell)}

\* C12: when BackToOrigin has run on a stored, non-empty shell, the bound
\* GetShellBound gave it is the least u and least v, and the greatest u and
\* greatest v, of the shell's UVs as they were, and after the move the
\* shell's least u and least v are both 0.
C12_BoundIsMinMaxAndShellAtOrigin ==
    (result = "ok" /\ ran # <<>> /\ ran[Len(ran)] = "BackToOrigin") =>
        /\ loc.minCoord = <<Least(Coords(pre, loc.shell, 1)),
                            Least(Coords(pre, loc.shell, 2))>>
        /\ loc.maxCoord = <<Greatest(Coords(pre, loc.shell, 1)),
                            Greatest(Coords(pre, loc.shell, 2))>>
        /\ Least(Coords(scene, loc.shell, 1)) = 0
        /\ Least(Coords(scene, loc.shell, 2)) = 0
====
